---- MODULE Spec2Model ----
(***************************************************************************)
(* c_utf8: nul-terminated UTF-8 strings.  CUtf8Buf is a String whose       *)
(* stored bytes carry a trailing zero byte; CUtf8 is the borrowed view.    *)
(* Byte strings are sequences of integers 0..255; a text (str / String)    *)
(* is the UTF-8 encoding of a sequence of code points.                     *)
(***************************************************************************)
EXTENDS Integers, Sequences, FiniteSets, TLC

\* ---------------------------------------------------------------- bounds
MaxChars == 2      \* code points per text argument
MaxLen == 5        \* bytes of storage a buffer may grow to
MaxBytes == 4      \* bytes of an untrusted input of from_bytes
MaxFrags == 2      \* fragments of a collected sequence
MaxLit == 3        \* code points of a c_utf8! literal
MaxText == 3       \* code points of the text a conversion starts from

\* ------------------------------------------------------- bytes and texts
\* The code points the arguments are drawn from: NUL, 'a', U+00E9.
Chars == {0, 97, 233}

\* The bytes untrusted input is drawn from: NUL, 'a', the lead byte and the
\* continuation byte of U+00E9.
Bytes == {0, 97, 195, 169}

\* char::encode_utf8, as String::push does it.
encode_utf8(c) ==
    IF c < 128 THEN <<c>>
    ELSE IF c < 2048 THEN <<192 + (c \div 64), 128 + (c % 64)>>
    ELSE IF c < 65536 THEN
        <<224 + (c \div 4096), 128 + ((c \div 64) % 64), 128 + (c % 64)>>
    ELSE <<240 + (c \div 262144), 128 + ((c \div 4096) % 64),
           128 + ((c \div 64) % 64), 128 + (c % 64)>>

RECURSIVE EncodeAll(_)
EncodeAll(cs) ==
    IF cs = <<>> THEN <<>> ELSE encode_utf8(Head(cs)) \o EncodeAll(Tail(cs))

CharSeqs(n) == UNION {[1..k -> Chars] : k \in 0..n}

\* Every str of at most n code points.
TextsUpTo(n) == {EncodeAll(cs) : cs \in CharSeqs(n)}

Texts == TextsUpTo(MaxChars)

HasNul(s) == \E k \in 1..Len(s) : s[k] = 0

\* Vec::pop: removes the last element; None (no change) on an empty vector.
pop(v) == IF v = <<>> THEN v ELSE SubSeq(v, 1, Len(v) - 1)

\* Vec::push(0)
push_nul(v) == Append(v, 0)

\* ext.rs: self.last().cloned() == Some(0)
is_nul_terminated(s) == Len(s) > 0 /\ s[Len(s)] = 0

\* ------------------------------------------------------------- CUtf8Buf
new == <<0>>

\* from_string that pushes a nul without looking at the last byte.
from_string_always_push(s) == push_nul(s)

from_string(s) == IF ~is_nul_terminated(s) THEN push_nul(s) ELSE s

\* with_string that leaves the old nul in place.
with_string_no_pop(storage, written, exit) ==
    IF exit = "panic" THEN storage \o written
    ELSE push_nul(storage \o written)

\* with_string that does not put the nul back.
with_string_no_push(storage, written, exit) == pop(storage) \o written

\* with_string(f): pop the nul, run f on the inner String, push the nul.
\* f is given by what it appended (written) and how it left: "ok" and
\* "err" return a value, "panic" unwinds out of with_string.
with_string(storage, written, exit) ==
    LET stripped == pop(storage)
        inner == stripped \o written
    IN IF exit = "panic" THEN inner ELSE push_nul(inner)

push_str(storage, s) == with_string(storage, s, "ok")

push(storage, c) == with_string(storage, encode_utf8(c), "ok")

into_string_with_nul(storage) == storage

\* into_string that keeps the nul.
into_string_keep_nul(storage) == into_string_with_nul(storage)

into_string(storage) == pop(into_string_with_nul(storage))

into_bytes_with_nul(storage) == into_string_with_nul(storage)

into_bytes(storage) == pop(into_bytes_with_nul(storage))

\* --------------------------------------------------------------- state
VARIABLES
    buf,      \* CUtf8Buf.0: the stored bytes
    origin,   \* the constructor that made buf
    cat,      \* everything appended to buf since construction, in order
    last,     \* the most recent call: op, arg, storage before, exit
    inp,      \* input of a pure function under check
    out,      \* its result
    i         \* check_no_nul: loop index

vars == <<buf, origin, cat, last, inp, out, i>>

NoCall == [op |-> "none", arg |-> <<>>, before |-> <<>>, exit |-> "ok"]

InitBuf ==
    /\ buf = new
    /\ origin = "new"
    /\ cat = <<>>
    /\ last = [NoCall EXCEPT !.op = "new"]
    /\ inp = <<>>
    /\ out = <<>>
    /\ i = 0

Idle == UNCHANGED <<inp, out, i>>

New ==
    /\ buf' = new
    /\ origin' = "new"
    /\ cat' = <<>>
    /\ last' = [NoCall EXCEPT !.op = "new"]
    /\ Idle

FromString ==
    \E s \in Texts :
        /\ buf' = from_string(s)
        /\ origin' = "from_string"
        /\ cat' = <<>>
        /\ last' = [NoCall EXCEPT !.op = "from_string", !.arg = s]
        /\ Idle

\* An append of at most the room that is left.
Room(written) ==
    /\ Len(buf) + Len(written) <= MaxLen
    /\ Len(cat) + Len(written) < MaxLen

Call(op, written, exit) ==
    [op |-> op, arg |-> written, before |-> buf, exit |-> exit]

PushStr ==
    \E s \in Texts :
        /\ Room(s)
        /\ buf' = push_str(buf, s)
        /\ cat' = cat \o s
        /\ last' = Call("push_str", s, "ok")
        /\ UNCHANGED origin /\ Idle

Push ==
    \E c \in Chars :
        /\ Room(encode_utf8(c))
        /\ buf' = push(buf, c)
        /\ cat' = cat \o encode_utf8(c)
        /\ last' = Call("push", encode_utf8(c), "ok")
        /\ UNCHANGED origin /\ Idle

\* fmt::Write::write_str: self.push_str(s); Ok(())
WriteStr ==
    \E s \in Texts :
        /\ Room(s)
        /\ buf' = push_str(buf, s)
        /\ cat' = cat \o s
        /\ last' = Call("write_str", s, "ok")
        /\ UNCHANGED origin /\ Idle

\* fmt::Write::write_char: self.push(c); Ok(())
WriteChar ==
    \E c \in Chars :
        /\ Room(encode_utf8(c))
        /\ buf' = push(buf, c)
        /\ cat' = cat \o encode_utf8(c)
        /\ last' = Call("write_char", encode_utf8(c), "ok")
        /\ UNCHANGED origin /\ Idle

\* fmt::Write::write_fmt: self.with_string(|s| s.write_fmt(args)).
\* String::write_fmt writes the pieces and the formatted arguments one
\* after the other; an argument's fmt may return Err or panic after any
\* prefix w of the output has been written.
WriteFmt ==
    \E w \in Texts, exit \in {"ok", "err", "panic"} :
        /\ Room(w)
        /\ buf' = with_string(buf, w, exit)
        /\ cat' = cat \o w
        /\ last' = Call("write_fmt", w, exit)
        /\ UNCHANGED origin /\ Idle

NextPush == New \/ FromString \/ PushStr \/ Push

NextWrite == New \/ FromString \/ PushStr \/ Push \/ WriteStr \/ WriteChar

Next ==
    New \/ FromString \/ PushStr \/ Push \/ WriteStr \/ WriteChar \/ WriteFmt

SpecPush == InitBuf /\ [][NextPush]_vars

SpecWrite == InitBuf /\ [][NextWrite]_vars

Spec == InitBuf /\ [][Next]_vars

\* ------------------------------------------- conversions (pure pipeline)
Start == [op |-> "input", val |-> <<>>]

Parked ==
    /\ buf = new
    /\ origin = "new"
    /\ cat = <<>>
    /\ last = NoCall
    /\ i = 0

Still == UNCHANGED <<buf, origin, cat, last, i>>

InitConv ==
    /\ inp \in TextsUpTo(MaxText)
    /\ out = Start
    /\ Parked

ConvFromString ==
    /\ out.op = "input"
    /\ out' = [op |-> "from_string", val |-> from_string(inp)]
    /\ UNCHANGED inp /\ Still

ConvIntoString ==
    /\ out.op = "from_string"
    /\ out' = [op |-> "into_string", val |-> into_string(out.val)]
    /\ UNCHANGED inp /\ Still

ConvIntoBytes ==
    /\ out.op = "from_string"
    /\ out' = [op |-> "into_bytes", val |-> into_bytes(out.val)]
    /\ UNCHANGED inp /\ Still

ConvIntoStringWithNul ==
    /\ out.op = "from_string"
    /\ out' = [op |-> "into_string_with_nul",
               val |-> into_string_with_nul(out.val)]
    /\ UNCHANGED inp /\ Still

ConvIntoBytesWithNul ==
    /\ out.op = "from_string"
    /\ out' = [op |-> "into_bytes_with_nul",
               val |-> into_bytes_with_nul(out.val)]
    /\ UNCHANGED inp /\ Still

\* CUtf8Buf::from_string(buf.into_string_with_nul())
ConvFromStringAgain ==
    /\ out.op = "into_string_with_nul"
    /\ out' = [op |-> "from_string_again", val |-> from_string(out.val)]
    /\ UNCHANGED inp /\ Still

NextConv ==
    \/ ConvFromString
    \/ ConvIntoString
    \/ ConvIntoBytes
    \/ ConvIntoStringWithNul
    \/ ConvIntoBytesWithNul
    \/ ConvFromStringAgain

SpecConv == InitConv /\ [][NextConv]_vars

\* ------------------------------------------------ equality and ordering
\* Ord for String / str: lexicographic on the bytes.
RECURSIVE str_cmp(_, _)
str_cmp(a, b) ==
    IF a = <<>> /\ b = <<>> THEN "Equal"
    ELSE IF a = <<>> THEN "Less"
    ELSE IF b = <<>> THEN "Greater"
    ELSE IF Head(a) < Head(b) THEN "Less"
    ELSE IF Head(a) > Head(b) THEN "Greater"
    ELSE str_cmp(Tail(a), Tail(b))

\* An order that looks at the lengths first.
buf_cmp_shortlex(x, y) ==
    IF Len(x) < Len(y) THEN "Less"
    ELSE IF Len(x) > Len(y) THEN "Greater"
    ELSE str_cmp(x, y)

\* #[derive(PartialOrd, Ord)] on CUtf8Buf(String): the order of the field.
buf_cmp(x, y) == str_cmp(x, y)

\* #[derive(PartialEq, Eq)] on CUtf8Buf(String): equality of the field.
buf_eq(x, y) == x = y

\* Deref: the view over the same stored bytes.
deref(storage) == storage

\* CUtf8 == CUtf8: equality of the terminator-exclusive text.
view_eq(v, w) == pop(v) = pop(w)

\* impl PartialEq<CUtf8> for CUtf8Buf: (**self) == *other
buf_eq_view(b, v) == view_eq(deref(b), v)

\* impl PartialEq<CUtf8Buf> for CUtf8: other.eq(self)
view_eq_buf(v, b) == buf_eq_view(b, v)

InitCmp ==
    /\ inp \in Texts \X Texts
    /\ out = Start
    /\ Parked

Compare ==
    /\ out.op = "input"
    /\ LET a == from_string(inp[1])
           b == from_string(inp[2])
       IN out' = [op |-> "compare",
                  eq |-> buf_eq(a, b),
                  cmp |-> buf_cmp(a, b),
                  buf_view |-> buf_eq_view(a, deref(b)),
                  view_buf |-> view_eq_buf(deref(b), a),
                  view_view |-> view_eq(deref(a), deref(b))]
    /\ UNCHANGED inp /\ Still

NextCmp == Compare

SpecCmp == InitCmp /\ [][NextCmp]_vars

\* -------------------------------------------------------------- collect
\* String: FromIterator: push_str of every fragment onto an empty String.
RECURSIVE string_collect(_)
string_collect(frags) ==
    IF frags = <<>> THEN <<>>
    ELSE string_collect(SubSeq(frags, 1, Len(frags) - 1))
             \o frags[Len(frags)]

\* from_iter that wraps the collected String as it is.
from_iter_unterminated(frags) == string_collect(frags)

from_iter(frags) == from_string(string_collect(frags))

InitCollect ==
    /\ inp \in UNION {[1..n -> Texts] : n \in 0..MaxFrags}
    /\ out = Start
    /\ Parked

Collect ==
    /\ out.op = "input"
    /\ out' = [op |-> "collect", val |-> from_iter(inp)]
    /\ UNCHANGED inp /\ Still

NextCollect == Collect

SpecCollect == InitCollect /\ [][NextCollect]_vars

\* ------------------------------------------------------ CUtf8::from_bytes
\* utf8_char_width of a leading byte; 0 for a byte that cannot lead.
utf8_char_width(x) ==
    IF x < 128 THEN 1
    ELSE IF x >= 194 /\ x <= 223 THEN 2
    ELSE IF x >= 224 /\ x <= 239 THEN 3
    ELSE IF x >= 240 /\ x <= 244 THEN 4
    ELSE 0

IsCont(x) == x >= 128 /\ x <= 191

\* The second byte admitted after the leading byte of a 3- or 4-byte
\* sequence (no overlong forms, no surrogates, nothing above U+10FFFF).
SecondOk(first, x) ==
    IF first = 224 THEN x >= 160 /\ x <= 191
    ELSE IF first = 237 THEN x >= 128 /\ x <= 159
    ELSE IF first = 240 THEN x >= 144 /\ x <= 191
    ELSE IF first = 244 THEN x >= 128 /\ x <= 143
    ELSE IsCont(x)

\* str::from_utf8: the number of leading bytes of b that are valid UTF-8,
\* resuming at offset k; Len(b) when all of b is valid.
RECURSIVE valid_up_to(_, _)
valid_up_to(b, k) ==
    IF k >= Len(b) THEN k
    ELSE LET first == b[k + 1]
             w == utf8_char_width(first)
         IN IF w = 0 \/ k + w > Len(b) THEN k
            ELSE IF w = 1 THEN valid_up_to(b, k + 1)
            ELSE IF ~SecondOk(first, b[k + 2]) THEN k
            ELSE IF w >= 3 /\ ~IsCont(b[k + 3]) THEN k
            ELSE IF w = 4 /\ ~IsCont(b[k + 4]) THEN k
            ELSE valid_up_to(b, k + w)

\* error.rs: the two kinds of Error and the conversions into it.
ErrorNul == [kind |-> "Nul", valid_up_to |-> 0]

from_nul_error == ErrorNul

\* From<Utf8Error> that builds the other variant.
from_utf8_error_as_nul(e) == [kind |-> "Nul", valid_up_to |-> e]

from_utf8_error(e) == [kind |-> "Utf8", valid_up_to |-> e]

OkView == [kind |-> "Ok", valid_up_to |-> 0]

\* The outcomes from_bytes may give for b.  The terminator must be the
\* last byte and the only zero byte, and the bytes before it valid UTF-8.
\* Which error input that is wrong in both ways gets is left open.
from_bytes(b) ==
    LET nulOk == is_nul_terminated(b) /\ ~HasNul(pop(b))
        e == valid_up_to(b, 0)
        utf8Ok == e = Len(b)
    IN IF nulOk /\ utf8Ok THEN {OkView}
       ELSE IF utf8Ok THEN {from_nul_error}
       ELSE IF nulOk THEN {from_utf8_error(e)}
       ELSE {from_nul_error, from_utf8_error(e)}

ByteSeqs(n) == UNION {[1..k -> Bytes] : k \in 0..n}

InitBytes ==
    /\ inp \in ByteSeqs(MaxBytes)
    /\ out = Start
    /\ Parked

FromBytes ==
    /\ out.op = "input"
    /\ \E r \in from_bytes(inp) : out' = [op |-> "from_bytes", val |-> r]
    /\ UNCHANGED inp /\ Still

NextBytes == FromBytes

SpecBytes == InitBytes /\ [][NextBytes]_vars

\* ----------------------------------------------- c_utf8! and check_no_nul
\* A scan that stops before the last byte.
scanning_skip_last(x, k) == k < Len(x) - 1

\* while i < bytes.len()
scanning(x, k) == k < Len(x)

\* concat!($s, "\0")
concat_nul(x) == x \o <<0>>

InitLit ==
    /\ inp \in TextsUpTo(MaxLit)
    /\ out = [op |-> "check_no_nul", val |-> <<>>]
    /\ buf = new
    /\ origin = "new"
    /\ cat = <<>>
    /\ last = NoCall
    /\ i = 0

StillLit == UNCHANGED <<buf, origin, cat, last, inp>>

\* bytes[i] is not nul: i += 1
CheckStep ==
    /\ out.op = "check_no_nul"
    /\ scanning(inp, i)
    /\ inp[i + 1] # 0
    /\ i' = i + 1
    /\ UNCHANGED out /\ StillLit

\* bytes[i] is nul: panic in const evaluation, the build fails
CheckPanic ==
    /\ out.op = "check_no_nul"
    /\ scanning(inp, i)
    /\ inp[i + 1] = 0
    /\ out' = [op |-> "compile_error", val |-> <<>>]
    /\ UNCHANGED i /\ StillLit

\* the loop ends: CUtf8::from_str_unchecked(concat!($s, "\0"))
CheckDone ==
    /\ out.op = "check_no_nul"
    /\ ~scanning(inp, i)
    /\ out' = [op |-> "c_utf8", val |-> concat_nul(inp)]
    /\ UNCHANGED i /\ StillLit

NextLit == CheckStep \/ CheckPanic \/ CheckDone

SpecLit == InitLit /\ [][NextLit]_vars

FairSpecLit == SpecLit /\ WF_vars(NextLit)

\* =============================================================== claims
AppendOps == {"push_str", "push", "write_str", "write_char", "write_fmt"}

\* C1 (as stated): every buffer made by new or from_string and grown by
\* push_str / push has length >= 1, a zero last byte, and no zero byte
\* before the last.
C1_FullInvariant ==
    /\ Len(buf) >= 1
    /\ buf[Len(buf)] = 0
    /\ \A k \in 1..(Len(buf) - 1) : buf[k] # 0

\* C2 (as stated): after every operation that goes through with_string,
\* however the inner append left (return, error, panic), the buffer ends
\* with its terminator.
C2_TerminatorRestored ==
    last.op \in AppendOps => Len(buf) >= 1 /\ buf[Len(buf)] = 0

\* C3: from_bytes(b) succeeds iff b ends with a zero byte that is its only
\* zero byte and the bytes before it are valid UTF-8; valid UTF-8 with a
\* missing or misplaced terminator gives Error::Nul; invalid UTF-8 before
\* a proper terminator gives Error::Utf8 with the offset of the first
\* invalid byte; there is no third kind of error.
ValidUtf8(s) == s \in TextsUpTo(MaxBytes + 1)

ProperNul(b) ==
    /\ Len(b) >= 1
    /\ b[Len(b)] = 0
    /\ \A k \in 1..(Len(b) - 1) : b[k] # 0

FirstInvalid(s) ==
    CHOOSE n \in 0..Len(s) :
        /\ ValidUtf8(SubSeq(s, 1, n))
        /\ \A m \in (n + 1)..Len(s) : ~ValidUtf8(SubSeq(s, 1, m))

C3_FromBytes ==
    out.op = "from_bytes" =>
        LET body == SubSeq(inp, 1, Len(inp) - 1)
        IN /\ out.val.kind \in {"Ok", "Nul", "Utf8"}
           /\ out.val.kind = "Ok" <=> (ProperNul(inp) /\ ValidUtf8(body))
           /\ (ValidUtf8(inp) /\ ~ProperNul(inp)) => out.val.kind = "Nul"
           /\ (ProperNul(inp) /\ ~ValidUtf8(body)) =>
                  /\ out.val.kind = "Utf8"
                  /\ out.val.valid_up_to = FirstInvalid(body)

C3_Witness ==
    /\ out.op = "from_bytes"
    /\ inp = <<97, 169, 97, 0>>
    /\ out.val = [kind |-> "Utf8", valid_up_to |-> 1]

\* C4: for texts s, t without a zero byte, from_string(s) and
\* from_string(t) are equal exactly when s = t and are ordered as s and t
\* are; buffer == view, view == buffer and view == view agree.
C4_Comparison ==
    (out.op = "compare" /\ ~HasNul(inp[1]) /\ ~HasNul(inp[2])) =>
        /\ out.eq <=> (inp[1] = inp[2])
        /\ out.cmp = str_cmp(inp[1], inp[2])
        /\ out.buf_view = out.view_buf
        /\ out.buf_view = out.view_view

C4_Witness ==
    /\ out.op = "compare"
    /\ inp = <<<<195, 169>>, <<97, 195, 169>>>>
    /\ out.cmp = "Greater"
    /\ ~out.eq

\* C5: for every text s without a zero byte, from_string(s).into_string()
\* is s and from_string(s).into_bytes() is the bytes of s.
C5_RoundTrip ==
    (out.op \in {"into_string", "into_bytes"} /\ ~HasNul(inp)) =>
        out.val = inp

C5_Witness ==
    /\ out.op = "into_string"
    /\ inp = <<97, 195, 169>>
    /\ out.val = inp

\* C6: from_string stores s unchanged when the last byte of s is zero and
\* s followed by one zero byte otherwise; building again from
\* into_string_with_nul gives the same buffer.
EndsInZero(s) == Len(s) >= 1 /\ s[Len(s)] = 0

C6_Idempotent ==
    /\ out.op = "from_string" =>
           out.val = IF EndsInZero(inp) THEN inp ELSE inp \o <<0>>
    /\ out.op = "from_string_again" =>
           out.val = IF EndsInZero(inp) THEN inp ELSE inp \o <<0>>

C6_Witness ==
    /\ out.op = "from_string_again"
    /\ inp = <<97, 0>>
    /\ out.val = <<97, 0>>

\* C7: new() holds exactly one zero byte; from it, after any push_str /
\* push calls, the terminator-exclusive text is the concatenation of the
\* arguments in call order and the stored bytes are that concatenation
\* followed by one zero byte.
C7_Append ==
    /\ last.op = "new" =>
           /\ buf = <<0>>
           /\ Len(into_bytes(buf)) = 0
           /\ Len(into_bytes_with_nul(buf)) = 1
    /\ origin = "new" =>
           /\ into_string(buf) = cat
           /\ into_bytes_with_nul(buf) = cat \o <<0>>

C7_Witness ==
    /\ origin = "new"
    /\ last.op = "push"
    /\ last.arg = <<195, 169>>
    /\ last.before = <<97, 0, 0>>
    /\ buf = <<97, 0, 195, 169, 0>>

\* C8 (as stated): collecting fragments gives from_string of their
\* concatenation, and the stored bytes are the concatenation followed by a
\* zero byte.
RECURSIVE Concat(_)
Concat(frags) ==
    IF frags = <<>> THEN <<>> ELSE Head(frags) \o Concat(Tail(frags))

C8_CollectAsStated ==
    out.op = "collect" =>
        /\ out.val = from_string(Concat(inp))
        /\ out.val = Concat(inp) \o <<0>>

\* C8 (amended): collecting fragments gives from_string of their
\* concatenation; the stored bytes are the concatenation followed by a
\* zero byte, except that a concatenation already ending in a zero byte is
\* stored as it is.
C8_Collect ==
    out.op = "collect" =>
        /\ out.val = from_string(Concat(inp))
        /\ out.val = IF EndsInZero(Concat(inp)) THEN Concat(inp)
                     ELSE Concat(inp) \o <<0>>

C8_Witness ==
    /\ out.op = "collect"
    /\ inp = <<<<97>>, <<195, 169, 0>>>>
    /\ out.val = <<97, 195, 169, 0>>

\* C9: check_no_nul(x) scans at most len(x) bytes and terminates; it
\* fails iff some byte of x is zero; an accepted literal x gives the bytes
\* of x followed by one zero byte, the only zero byte.
C9_Scan ==
    /\ i <= Len(inp)
    /\ out.op = "compile_error" => \E k \in 1..Len(inp) : inp[k] = 0
    /\ out.op = "c_utf8" =>
           /\ \A k \in 1..Len(inp) : inp[k] # 0
           /\ out.val = inp \o <<0>>
           /\ \A k \in 1..Len(out.val) : out.val[k] = 0 <=> k = Len(out.val)

C10_Terminated ==
    /\ Len(buf) >= 1
    /\ buf[Len(buf)] = 0
    /\ last.op \in AppendOps => Len(buf) = Len(last.before) + Len(last.arg)

C10_Witness ==
    /\ last.op = "write_char"
    /\ last.arg = <<0>>
    /\ last.before = <<0, 195, 169, 0>>
    /\ buf = <<0, 195, 169, 0, 0>>

====
